---- MODULE Spec2Model ----
(***************************************************************************)
(* SurveyUploader (src/SurveyUploader/index.ts, first class, lines 16-711): *)
(* a spreadsheet grid is parsed into ID/Response/Notes records             *)
(* (parseExcelData) and every record is reconciled against the remote      *)
(* store, one at a time (processDataverseUpdates, updateDataverseRecord).  *)
(*                                                                         *)
(* Strings are sequences of one-character strings, so that trim() is a     *)
(* real conversion.  Array indices are 1-based here and 0-based in the     *)
(* source: column k of the source is cells[k+1].                           *)
(***************************************************************************)
EXTENDS Integers, Sequences, FiniteSets, TLC

\* ------------------------------------------------------------------------
\* Bounds of the model
\* ------------------------------------------------------------------------
\* widest row of the one-data-row grids
MaxCols == 4
\* most data rows of the batch grids
MaxDataRows == 2

\* ------------------------------------------------------------------------
\* Cell values and strings
\* ------------------------------------------------------------------------
WhiteSpace == {" "}

Undef == [t |-> "undef", s |-> <<>>, n |-> 0]
Null == [t |-> "null", s |-> <<>>, n |-> 0]
Str(s) == [t |-> "str", s |-> s, n |-> 0]
Num(n) == [t |-> "num", s |-> <<>>, n |-> n]

Digit(d) == CASE d = 0 -> "0" [] d = 1 -> "1" [] d = 2 -> "2" [] d = 3 -> "3"
              [] d = 4 -> "4" [] d = 5 -> "5" [] d = 6 -> "6" [] d = 7 -> "7"
              [] d = 8 -> "8" [] d = 9 -> "9"

RECURSIVE Digits(_)
Digits(n) == IF n < 10 THEN <<Digit(n)>> ELSE Append(Digits(n \div 10), Digit(n % 10))

\* x.toString() of a cell that is neither undefined nor null
toString(c) == IF c.t = "num" THEN Digits(c.n) ELSE c.s

RECURSIVE TrimStart(_)
TrimStart(s) == IF s # <<>> /\ Head(s) \in WhiteSpace THEN TrimStart(Tail(s)) ELSE s

RECURSIVE TrimEnd(_)
TrimEnd(s) ==
  IF s # <<>> /\ s[Len(s)] \in WhiteSpace THEN TrimEnd(SubSeq(s, 1, Len(s) - 1)) ELSE s

\* String.prototype.trim
trim(s) == TrimEnd(TrimStart(s))

\* row[k] !== undefined && row[k] !== null && row[k] !== ""   (strict: before any trim)
IsSetCell(c) == c.t # "undef" /\ c.t # "null" /\ ~(c.t = "str" /\ c.s = <<>>)

\* truthiness of a JS string
Truthy(s) == s # <<>>

\* A row of the grid: an array of cells, or something that is not an array
\* (null, undefined, an object).
ArrayRow(cells) == [isArray |-> TRUE, cells |-> cells]
NotArrayRow == [isArray |-> FALSE, cells |-> <<>>]

\* ------------------------------------------------------------------------
\* parseExcelData
\* ------------------------------------------------------------------------
\* lines 231-234
RowId(row) == IF IsSetCell(row.cells[1]) THEN trim(toString(row.cells[1])) ELSE <<>>

\* RowResponse with a fault: the response is read from column 1 only
RowResponse_columnOneOnly(row) ==
  IF Len(row.cells) > 1 /\ IsSetCell(row.cells[2]) THEN trim(toString(row.cells[2]))
  ELSE <<>>

\* lines 236-251
RowResponse(row) ==
  IF Len(row.cells) > 2 /\ IsSetCell(row.cells[3]) THEN trim(toString(row.cells[3]))
  ELSE IF Len(row.cells) > 1 /\ IsSetCell(row.cells[2]) THEN trim(toString(row.cells[2]))
  ELSE <<>>

\* RowNotes with a fault: column 3 is looked at only in rows of more than 4 cells
RowNotes_offByOne(row) ==
  IF Len(row.cells) > 4 /\ IsSetCell(row.cells[4]) THEN trim(toString(row.cells[4]))
  ELSE IF Len(row.cells) > 2 /\ IsSetCell(row.cells[3]) /\ ~Truthy(RowResponse(row))
       THEN trim(toString(row.cells[3]))
  ELSE <<>>

\* lines 253-269
RowNotes(row) ==
  IF Len(row.cells) > 3 /\ IsSetCell(row.cells[4]) THEN trim(toString(row.cells[4]))
  ELSE IF Len(row.cells) > 2 /\ IsSetCell(row.cells[3]) /\ ~Truthy(RowResponse(row))
       THEN trim(toString(row.cells[3]))
  ELSE <<>>

\* line 225
RowUsable(row) == row.isArray /\ Len(row.cells) >= 1

\* RowEmits with a fault: the id is tested before it is trimmed
RowEmits_rawId(row) == RowUsable(row) /\ IsSetCell(row.cells[1])

\* lines 271-277: "Only add if we have at least an ID"
RowEmits(row) == RowUsable(row) /\ Truthy(RowId(row))

RowRecord(row) == [ID |-> RowId(row), Response |-> RowResponse(row), Notes |-> RowNotes(row)]

\* TooShort with a fault: the header row alone is accepted
TooShort_offByOne(jsonData) == Len(jsonData) < 1

\* line 214
TooShort(jsonData) == Len(jsonData) < 2

\* the loop of lines 221-283 from source index i (0-based) on: the pairs
\* <<source index, record>> pushed to parsedData, in push order
RECURSIVE ParseFrom(_, _)
ParseFrom(jsonData, i) ==
  IF i >= Len(jsonData) THEN <<>>
  ELSE IF RowEmits(jsonData[i + 1])
       THEN <<(<<i, RowRecord(jsonData[i + 1])>>)>> \o ParseFrom(jsonData, i + 1)
       ELSE ParseFrom(jsonData, i + 1)

\* line 221: the loop starts at the row after the header
FirstDataRow == 1

\* parseExcelData with a fault: the loop starts at the header row
parseExcelData_fromHeader(jsonData) ==
  LET pairs == ParseFrom(jsonData, FirstDataRow - 1) IN [k \in 1..Len(pairs) |-> pairs[k][2]]

\* the value returned by parseExcelData when it does not throw
parseExcelData(jsonData) ==
  LET pairs == ParseFrom(jsonData, FirstDataRow) IN [k \in 1..Len(pairs) |-> pairs[k][2]]

\* source row index of each returned record (history of the same loop)
parsedFrom(jsonData) ==
  LET pairs == ParseFrom(jsonData, FirstDataRow) IN [k \in 1..Len(pairs) |-> pairs[k][1]]

\* ------------------------------------------------------------------------
\* Inputs: the grids a selected file can decode to
\* ------------------------------------------------------------------------
sR == <<"R">>
sN == <<" ", "N", " ">>
sA1 == <<"A", "1">>
sR1 == <<"R", "1">>
sR2 == <<"R", "2">>
sN2 == <<"N", "2">>
sYes == <<"Y", "e", "s">>
sOk == <<"o", "k">>
sComment == <<"c", "o", "m", "m", "e", "n", "t">>
sIgnored == <<"i", "g", "n", "o", "r", "e", "d">>
sID == <<"I", "D">>
sResp == <<"R", "e", "s", "p">>
sNotes == <<"N", "o", "t", "e", "s">>

Strs == {<<>>, <<" ">>, sR, sN}
Cells == {Undef, Null, Num(7)} \cup {Str(s) : s \in Strs}

RECURSIVE CellSeqs(_)
CellSeqs(n) ==
  IF n = 0 THEN {<<>>}
  ELSE CellSeqs(n - 1) \cup {Append(cs, c) : cs \in {x \in CellSeqs(n - 1) : Len(x) = n - 1}, c \in Cells}

HeaderRow == ArrayRow(<<Str(sID), Str(sResp), Str(sNotes)>>)
DataLikeHeader == ArrayRow(<<Str(sA1), Str(sR2), Str(sN2)>>)

\* every row of at most MaxCols cells over Cells, and a row that is not an array
WideRows == {ArrayRow(cs) : cs \in CellSeqs(MaxCols)} \cup {NotArrayRow}

ExampleRows ==
  { ArrayRow(<<Str(sA1), Str(sR2), Str(sN2)>>),
    ArrayRow(<<Str(sA1), Str(<<>>), Str(sR), Str(<<"N">>)>>) }

BatchRows ==
  { ArrayRow(<<Str(sR1), Str(sYes), Str(sOk)>>),
    ArrayRow(<<Str(sR2), Str(<<>>), Str(sComment)>>),
    ArrayRow(<<Str(<<>>), Str(sIgnored), Str(sIgnored)>>),
    ArrayRow(<<Str(sA1)>>) }

RECURSIVE RowSeqs(_, _)
RowSeqs(rows, n) ==
  IF n = 0 THEN {<<>>}
  ELSE RowSeqs(rows, n - 1) \cup {Append(rs, r) : rs \in {x \in RowSeqs(rows, n - 1) : Len(x) = n - 1}, r \in rows}

ExampleGrid ==
  << HeaderRow,
     ArrayRow(<<Str(sR1), Str(sYes), Str(sOk)>>),
     ArrayRow(<<Str(sR2), Str(<<>>), Str(sComment)>>),
     ArrayRow(<<Str(<<>>), Str(sIgnored), Str(sIgnored)>>) >>

\* a grid of three records
ThreeRecordGrid ==
  << HeaderRow,
     ArrayRow(<<Str(sR1), Str(sYes), Str(sOk)>>),
     ArrayRow(<<Str(sR2), Str(<<>>), Str(sComment)>>),
     ArrayRow(<<Str(sA1)>>) >>

Grids ==
  {<<>>}
  \cup {<<HeaderRow>> \o rs : rs \in RowSeqs(BatchRows, MaxDataRows)}
  \cup {<<DataLikeHeader>>, <<DataLikeHeader, DataLikeHeader>>, <<DataLikeHeader, NotArrayRow>>}
  \cup {<<HeaderRow, r>> : r \in WideRows \cup ExampleRows}
  \cup {<<r>> : r \in ExampleRows}
  \cup {ExampleGrid, ThreeRecordGrid}

\* ------------------------------------------------------------------------
\* The remote store (context.webAPI): what a call can resolve or reject with
\* ------------------------------------------------------------------------
NoError == [message |-> "", str |-> ""]
\* an Error object with a message, and a rejection value without one
Errors == {[message |-> "denied", str |-> "Error: denied"], [message |-> "", str |-> "503"]}
TransportError == [message |-> "unreachable", str |-> "Error: unreachable"]
\* the entities of a resolved retrieveMultipleRecords: their identifiers
EntityLists == {<<>>, <<1>>, <<2, 1>>}

Resolved(entities) == [ok |-> TRUE, entities |-> entities, error |-> NoError]
Rejected(e) == [ok |-> FALSE, entities |-> <<>>, error |-> e]
\* a filtered lookup resolves with entities or rejects (its error is only logged)
QueryResults == {Resolved(es) : es \in EntityLists} \cup {Rejected(TransportError)}
\* the probe resolves (its entities are only logged) or rejects
ProbeResults == {Resolved(<<>>), Resolved(<<1>>)} \cup {Rejected(e) : e \in Errors}
UpdateResults == {Resolved(<<>>)} \cup {Rejected(e) : e \in Errors}

PrimaryEntity == "afsdc_questionresponseinstances"
AlternateEntity == "afsdc_questionresponseinstance"

\* a call on webAPI; rec is the 0-based index of the record it is issued for
Query(entity, filtered, cleanId, rec) ==
  [op |-> "retrieveMultipleRecords", entity |-> entity, filtered |-> filtered,
   key |-> cleanId, id |-> 0, data |-> {}, rec |-> rec]
\* Update with a fault: the payload names both fields, with the empty string
\* for the one the record does not have
Update_sendsBoth(entity, id, data, rec) ==
  [op |-> "updateRecord", entity |-> entity, filtered |-> FALSE, key |-> <<>>, id |-> id,
   data |-> data
            \cup (IF \E p \in data : p[1] = "afsdc_response" THEN {}
                  ELSE {<<"afsdc_response", <<>> >>})
            \cup (IF \E p \in data : p[1] = "afsdc_comments" THEN {}
                  ELSE {<<"afsdc_comments", <<>> >>}),
   rec |-> rec]

\* lines 580-584: the updateRecord call
Update(entity, id, data, rec) ==
  [op |-> "updateRecord", entity |-> entity, filtered |-> FALSE,
   key |-> <<>>, id |-> id, data |-> data, rec |-> rec]

\* ------------------------------------------------------------------------
\* State
\* ------------------------------------------------------------------------
VARIABLES
  fileSelected,  \* _fileInput.files[0] is set; the upload button is enabled
  file,          \* the grid sheet_to_json yields for the selected file
  pc,            \* where the upload handler is suspended
  _parsedData,   \* this._parsedData
  results,       \* processDataverseUpdates: const results
  totalRecords,  \* processDataverseUpdates: const totalRecords
  i,             \* processDataverseUpdates: loop index (0-based)
  row,           \* processDataverseUpdates: const row
  inflight,      \* webAPI calls issued and not yet settled
  calls,         \* history: every webAPI call issued since the page loaded
  replies,       \* history: what the settled calls resolved or rejected with, in call order
  modalShown,    \* .modal-overlay is displayed
  status,        \* .modal-status
  progress,      \* .progress-text
  progressLog,   \* history: every value passed to updateModalProgress
  footerShown,   \* .modal-footer is displayed
  summary,       \* .modal-results
  workbook,      \* uploadAndProcessFile: const workbook, the value of XLSX.read
  targetSheetName, \* uploadAndProcessFile: let targetSheetName
  runs           \* the locals of each invocation of uploadAndProcessFile, when
                 \* the button can be clicked again during a run

vars ==
  << fileSelected, file, pc, _parsedData, results, totalRecords, i, row, inflight, calls,
     replies, modalShown, status, progress, progressLog, footerShown, summary,
     workbook, targetSheetName, runs >>

\* the variables of the decoding steps and of the overlapping invocations,
\* which the single run over the grid leaves alone
elsewhere == << workbook, targetSheetName, runs >>

\* no workbook read yet, no sheet chosen yet
NoWorkbook == [SheetNames |-> <<>>, hasProps |-> FALSE, Hidden |-> <<>>]
NoSheet == <<>>

NoRow == [ID |-> <<>>, Response |-> <<>>, Notes |-> <<>>]

\* the invocations of uploadAndProcessFile that can overlap: the first one and
\* one started while it is suspended
Invocations == {1, 2}

\* an invocation that has not started.  file, i, row, totalRecords and results
\* are its locals; history: own is the value its parseExcelData returned, seen
\* the rows it read at line 345, in order, and overlapped tells that the button
\* was clicked again while it was suspended on a remote call
NoRun ==
  [pc |-> "idle", file |-> <<>>, i |-> 0, row |-> NoRow, totalRecords |-> 0, results |-> <<>>,
   own |-> <<>>, seen |-> <<>>, overlapped |-> FALSE]
NoStatus == [type |-> "", msg |-> "", n |-> 0]
NoSummary == [shown |-> FALSE, successCount |-> 0, failureCount |-> 0, failed |-> <<>>]

Init ==
  /\ fileSelected = FALSE
  /\ file = <<>>
  /\ pc = "idle"
  /\ _parsedData = <<>>
  /\ results = <<>>
  /\ totalRecords = 0
  /\ i = 0
  /\ row = NoRow
  /\ inflight = {}
  /\ calls = <<>>
  /\ replies = <<>>
  /\ modalShown = FALSE
  /\ status = NoStatus
  /\ progress = 0
  /\ progressLog = <<>>
  /\ footerShown = FALSE
  /\ summary = NoSummary
  /\ workbook = NoWorkbook
  /\ targetSheetName = NoSheet
  /\ runs = [r \in Invocations |-> NoRun]

\* ------------------------------------------------------------------------
\* UpdateResult values of updateDataverseRecord
\* ------------------------------------------------------------------------
\* error: the template of the message, the id and the remote detail put in it
NoErrorText == [text |-> "", key |-> <<>>, detail |-> ""]

\* lines 523-527
NotFoundInEntity(r) ==
  [success |-> FALSE, recordId |-> r.ID,
   error |-> [text |-> "Record '' not found in entity", key |-> trim(r.ID), detail |-> ""]]

\* lines 530-536
AccessError(r, e) ==
  [success |-> FALSE, recordId |-> r.ID,
   error |-> [text |-> "Entity access error: ", key |-> <<>>,
              detail |-> IF e.message # "" THEN e.message ELSE "Unknown error"]]

\* lines 543-547
NotFound(r) ==
  [success |-> FALSE, recordId |-> r.ID,
   error |-> [text |-> "Record not found: ''", key |-> trim(r.ID), detail |-> ""]]

\* lines 567-571
NoOpError(r) ==
  [success |-> FALSE, recordId |-> r.ID,
   error |-> [text |-> "No data to update (Response and Notes are empty)", key |-> <<>>,
              detail |-> ""]]

\* UpdateFailed with a fault: the remote error is not put in the message
UpdateFailed_noDetail(r, e) ==
  [success |-> FALSE, recordId |-> r.ID,
   error |-> [text |-> "Update failed: ", key |-> <<>>, detail |-> "Unknown error"]]

\* lines 594-600
UpdateFailed(r, e) ==
  [success |-> FALSE, recordId |-> r.ID,
   error |-> [text |-> "Update failed: ", key |-> <<>>,
              detail |-> IF e.message # "" THEN e.message
                         ELSE IF e.str # "" THEN e.str ELSE "Unknown error"]]

\* Success with a fault: the outcome of an update that went through does not
\* carry the success flag
Success_flagFalse(r) == [success |-> FALSE, recordId |-> r.ID, error |-> NoErrorText]

\* lines 588-591
Success(r) == [success |-> TRUE, recordId |-> r.ID, error |-> NoErrorText]

\* updateData with a fault: the response is put in the payload without the
\* emptiness test of line 556
updateData_sendsEmpty(r) ==
  {<<"afsdc_response", trim(r.Response)>>}
  \cup
  (IF Truthy(r.Notes) /\ trim(r.Notes) # <<>>
     THEN {<<"afsdc_comments", trim(r.Notes)>>} ELSE {})

\* lines 554-562: the keys and values of updateData
updateData(r) ==
  (IF Truthy(r.Response) /\ trim(r.Response) # <<>>
     THEN {<<"afsdc_response", trim(r.Response)>>} ELSE {})
  \cup
  (IF Truthy(r.Notes) /\ trim(r.Notes) # <<>>
     THEN {<<"afsdc_comments", trim(r.Notes)>>} ELSE {})

\* Progress with a fault: Math.floor instead of Math.round
Progress_floor(k, total) == (100 * (k + 1)) \div total

\* line 356: Math.round(((i + 1) / totalRecords) * 100)
Progress(k, total) == (200 * (k + 1) + total) \div (2 * total)

\* ------------------------------------------------------------------------
\* processDataverseUpdates and updateDataverseRecord, cut at their awaits
\* ------------------------------------------------------------------------
\* the call the handler is suspended on
Awaited == calls[Len(calls)]

\* FirstLookup with a fault: the record is looked up with the unfiltered query
FirstLookup_unfiltered(data, k) == Query(PrimaryEntity, FALSE, <<>>, k)

\* lines 484-491: the first lookup of record k
FirstLookup(data, k) == Query(PrimaryEntity, TRUE, trim(data[k + 1].ID), k)

\* lines 344-353 and 479-491: the loop body for record k up to its first await;
\* pending are the calls still in flight
StartRecord(data, k, total, pending) ==
  /\ i' = k
  /\ row' = data[k + 1]
  /\ status' = [type |-> "info", msg |-> "Processing record", n |-> k + 1]
  /\ inflight' = pending \cup {FirstLookup(data, k)}
  /\ calls' = Append(calls, FirstLookup(data, k))
  /\ pc' = "q1"

\* displayModalResults with a fault: the failure count is taken from the
\* whole list of results
displayModalResults_countsAll(res) ==
  LET successCount == Len(SelectSeq(res, LAMBDA r : r.success))
      failed == SelectSeq(res, LAMBDA r : ~r.success)
  IN /\ summary' = [shown |-> TRUE, successCount |-> successCount,
                    failureCount |-> Len(res), failed |-> failed]
     /\ status' = IF successCount > 0
                  THEN [type |-> "success", msg |-> "Successfully updated", n |-> successCount]
                  ELSE [type |-> "error", msg |-> "No records were updated", n |-> 0]
     /\ footerShown' = TRUE

\* lines 414-470
displayModalResults(res) ==
  LET successCount == Len(SelectSeq(res, LAMBDA r : r.success))
      failed == SelectSeq(res, LAMBDA r : ~r.success)
  IN /\ summary' = [shown |-> TRUE, successCount |-> successCount,
                    failureCount |-> Len(failed), failed |-> failed]
     /\ status' = IF successCount > 0
                  THEN [type |-> "success", msg |-> "Successfully updated", n |-> successCount]
                  ELSE [type |-> "error", msg |-> "No records were updated", n |-> 0]
     /\ footerShown' = TRUE

\* Push with a fault: unshift instead of push
Push_unshift(res, result) == <<result>> \o res

\* line 354: results.push(result)
Push(res, result) == Append(res, result)

\* MoreRecords with a fault: the loop stops one record early
MoreRecords_offByOne(k) == k < Len(_parsedData) - 1

\* line 344: the loop condition, read on every iteration
MoreRecords(k) == k < Len(_parsedData)

\* lines 354-357, then the next iteration (344-353) or the end of the loop (368).
\* updateDataverseRecord returns an outcome on every path (its own catch,
\* lines 592-601, covers the whole body), so the await of line 353 never
\* rejects and the catch of lines 358-365 is not entered.
RecordDone(result, pending) ==
  /\ results' = Push(results, result)
  /\ progress' = Progress(i, totalRecords)
  /\ progressLog' = Append(progressLog, Progress(i, totalRecords))
  /\ IF MoreRecords(i + 1)
     THEN /\ StartRecord(_parsedData, i + 1, totalRecords, pending)
          /\ UNCHANGED <<summary, footerShown>>
     ELSE /\ displayModalResults(Push(results, result))
          /\ i' = i + 1
          /\ inflight' = pending
          /\ pc' = "done"
          /\ UNCHANGED <<row, calls>>
  /\ UNCHANGED <<fileSelected, file, _parsedData, totalRecords, modalShown>>

\* issue one more call for the current record and suspend on it
Suspend(call, pending, at) ==
  /\ inflight' = pending \cup {call}
  /\ calls' = Append(calls, call)
  /\ pc' = at
  /\ UNCHANGED << fileSelected, file, _parsedData, results, totalRecords, i, row, modalShown,
                  status, progress, progressLog, footerShown, summary >>

\* UpdateEntity with a fault: the update goes to the collection Strategy A
\* queries
UpdateEntity_primary == PrimaryEntity

\* line 581: the collection name passed to updateRecord
UpdateEntity == AlternateEntity

\* AfterLookup with a fault: the update is issued without await, so the record
\* is reported as updated while the call is still in flight
AfterLookup_noAwait(entities, pending) ==
  IF Len(entities) = 0 THEN RecordDone(NotFound(row), pending)
  ELSE IF updateData(row) = {} THEN RecordDone(NoOpError(row), pending)
  ELSE RecordDone(Success(row),
                  pending \cup {Update(UpdateEntity, entities[1], updateData(row), i)})

\* lines 541-584: after a lookup resolved with entities
AfterLookup(entities, pending) ==
  IF Len(entities) = 0 THEN RecordDone(NotFound(row), pending)
  ELSE IF updateData(row) = {} THEN RecordDone(NoOpError(row), pending)
  ELSE Suspend(Update(UpdateEntity, entities[1], updateData(row), i), pending, "upd")

\* ------------------------------------------------------------------------
\* Actions
\* ------------------------------------------------------------------------
\* lines 101-108: a file is chosen (once per page load)
FileChange ==
  /\ UNCHANGED elsewhere
  /\ pc = "idle"
  /\ ~fileSelected
  /\ fileSelected' = TRUE
  /\ file' \in Grids
  /\ UNCHANGED << pc, _parsedData, results, totalRecords, i, row, inflight, calls, replies, modalShown,
                  status, progress, progressLog, footerShown, summary >>

\* lines 110-112 and 123-136: the click, up to await file.arrayBuffer().
\* The modal overlay covers the button from here on, so no second click
\* happens until the page is reloaded.
Click ==
  /\ UNCHANGED elsewhere
  /\ pc = "idle"
  /\ fileSelected
  /\ modalShown' = TRUE
  /\ status' = [type |-> "info", msg |-> "Parsing Excel file...", n |-> 0]
  /\ progress' = 0
  /\ progressLog' = Append(progressLog, 0)
  /\ pc' = "reading"
  /\ UNCHANGED << fileSelected, file, _parsedData, results, totalRecords, i, row, inflight,
                  calls, replies, footerShown, summary >>

\* lines 202-206: the catch of uploadAndProcessFile
Abort(msg) ==
  /\ status' = [type |-> "error", msg |-> msg, n |-> 0]
  /\ footerShown' = TRUE
  /\ pc' = "aborted"
  /\ UNCHANGED <<results, totalRecords, i, row, inflight, calls, replies, summary>>

\* lines 136-137: reading or decoding the file throws
ReadFail ==
  /\ UNCHANGED elsewhere
  /\ pc = "reading"
  /\ Abort("Error: read")
  /\ UNCHANGED <<fileSelected, file, _parsedData, modalShown, progress, progressLog>>

\* NoValidData with a fault: the check of line 183 is missing
NoValidData_never(data) == FALSE

\* line 183
NoValidData(data) == Len(data) = 0

\* lines 136-201 and 334-353: the file is decoded and parsed, and the run
\* starts its first record
ReadDone ==
  /\ UNCHANGED elsewhere
  /\ pc = "reading"
  /\ UNCHANGED <<fileSelected, file, modalShown>>
  /\ IF TooShort(file)
     THEN /\ Abort("Error: Excel file must contain at least a header row and one data row")
          /\ progress' = 30
          /\ progressLog' = Append(progressLog, 30)
          /\ UNCHANGED _parsedData
     ELSE /\ _parsedData' = parseExcelData(file)
          /\ IF NoValidData(parseExcelData(file))
             THEN /\ Abort("Error: No valid data found in Excel file. Please check your file format.")
                  /\ progress' = 30
                  /\ progressLog' = Append(progressLog, 30)
             ELSE /\ progress' = 50
                  /\ progressLog' = progressLog \o <<30, 50>>
                  /\ UNCHANGED <<summary, replies>>
                  /\ IF Len(parseExcelData(file)) = 0
                     THEN \* lines 335-339
                          /\ status' = [type |-> "error", msg |-> "No data to process", n |-> 0]
                          /\ footerShown' = TRUE
                          /\ pc' = "nodata"
                          /\ UNCHANGED <<results, totalRecords, i, row, inflight, calls>>
                     ELSE /\ results' = <<>>
                          /\ totalRecords' = Len(parseExcelData(file))
                          /\ StartRecord(parseExcelData(file), 0, Len(parseExcelData(file)), inflight)
                          /\ UNCHANGED footerShown

\* Query1Return with a fault: a lookup that resolves with no entity is
\* treated like a failed one and Strategy B is tried
Query1Return_fallbackOnEmpty(r) ==
  /\ UNCHANGED elsewhere
  /\ pc = "q1"
  /\ Awaited \in inflight
  /\ replies' = Append(replies, r)
  /\ IF r.ok /\ Len(r.entities) > 0 THEN AfterLookup(r.entities, inflight \ {Awaited})
     ELSE Suspend(Query(AlternateEntity, TRUE, trim(row.ID), i), inflight \ {Awaited}, "q2")

\* lines 488-503: Strategy A settles
Query1Return(r) ==
  /\ UNCHANGED elsewhere
  /\ pc = "q1"
  /\ Awaited \in inflight
  /\ replies' = Append(replies, r)
  /\ IF r.ok THEN AfterLookup(r.entities, inflight \ {Awaited})
     ELSE Suspend(Query(AlternateEntity, TRUE, trim(row.ID), i), inflight \ {Awaited}, "q2")

\* Query2Return with a fault: the entities Strategy B resolved with are not
\* kept in retrieveResponse
Query2Return_dropsResult(r) ==
  /\ UNCHANGED elsewhere
  /\ pc = "q2"
  /\ Awaited \in inflight
  /\ replies' = Append(replies, r)
  /\ IF r.ok THEN AfterLookup(<<>>, inflight \ {Awaited})
     ELSE Suspend(Query(PrimaryEntity, FALSE, <<>>, i), inflight \ {Awaited}, "q3")

\* lines 500-516: Strategy B settles
Query2Return(r) ==
  /\ UNCHANGED elsewhere
  /\ pc = "q2"
  /\ Awaited \in inflight
  /\ replies' = Append(replies, r)
  /\ IF r.ok THEN AfterLookup(r.entities, inflight \ {Awaited})
     ELSE Suspend(Query(PrimaryEntity, FALSE, <<>>, i), inflight \ {Awaited}, "q3")

\* Query3Return with a fault: the rejection of the probe is swallowed and
\* reported like a missing record
Query3Return_swallowsError(r) ==
  /\ UNCHANGED elsewhere
  /\ pc = "q3"
  /\ Awaited \in inflight
  /\ replies' = Append(replies, r)
  /\ RecordDone(NotFoundInEntity(row), inflight \ {Awaited})

\* lines 512-537: the probe settles
Query3Return(r) ==
  /\ UNCHANGED elsewhere
  /\ pc = "q3"
  /\ Awaited \in inflight
  /\ replies' = Append(replies, r)
  /\ IF r.ok THEN RecordDone(NotFoundInEntity(row), inflight \ {Awaited})
     ELSE RecordDone(AccessError(row, r.error), inflight \ {Awaited})

\* UpdateReturn with a fault: the rejection of the update is not caught per
\* record and reaches the catch of uploadAndProcessFile
UpdateReturn_throws(r) ==
  /\ UNCHANGED elsewhere
  /\ pc = "upd"
  /\ Awaited \in inflight
  /\ IF r.ok
     THEN /\ replies' = Append(replies, r)
          /\ RecordDone(Success(row), inflight \ {Awaited})
     ELSE /\ status' = [type |-> "error", msg |-> "Error: update", n |-> 0]
          /\ footerShown' = TRUE
          /\ pc' = "aborted"
          /\ replies' = Append(replies, r)
          /\ inflight' = inflight \ {Awaited}
          /\ UNCHANGED << fileSelected, file, _parsedData, results, totalRecords, i, row, calls,
                          modalShown, progress, progressLog, summary >>

\* lines 580-601: the update settles
UpdateReturn(r) ==
  /\ UNCHANGED elsewhere
  /\ pc = "upd"
  /\ Awaited \in inflight
  /\ replies' = Append(replies, r)
  /\ IF r.ok THEN RecordDone(Success(row), inflight \ {Awaited})
     ELSE RecordDone(UpdateFailed(row, r.error), inflight \ {Awaited})

\* lines 115-120: "Close & Refresh" reloads the page
Close ==
  /\ UNCHANGED elsewhere
  /\ footerShown
  /\ fileSelected' = FALSE
  /\ file' = <<>>
  /\ pc' = "idle"
  /\ _parsedData' = <<>>
  /\ results' = <<>>
  /\ totalRecords' = 0
  /\ i' = 0
  /\ row' = NoRow
  /\ inflight' = {}
  /\ calls' = <<>>
  /\ replies' = <<>>
  /\ modalShown' = FALSE
  /\ status' = NoStatus
  /\ progress' = 0
  /\ progressLog' = <<>>
  /\ footerShown' = FALSE
  /\ summary' = NoSummary

Next ==
  \/ FileChange
  \/ Click
  \/ ReadFail
  \/ ReadDone
  \/ \E r \in QueryResults : Query1Return(r)
  \/ \E r \in QueryResults : Query2Return(r)
  \/ \E r \in ProbeResults : Query3Return(r)
  \/ \E r \in UpdateResults : UpdateReturn(r)
  \/ Close

Spec == Init /\ [][Next]_vars

\* a call in flight settles: webAPI resolves or rejects the promise the
\* handler awaits
RemoteReturns ==
  \/ \E r \in QueryResults : Query1Return(r)
  \/ \E r \in QueryResults : Query2Return(r)
  \/ \E r \in ProbeResults : Query3Return(r)
  \/ \E r \in UpdateResults : UpdateReturn(r)

\* every remote call eventually returns
FairSpec == Init /\ [][Next]_vars /\ WF_vars(RemoteReturns)

\* ------------------------------------------------------------------------
\* Decoding: the sheet of the workbook that is turned into the grid
\* ------------------------------------------------------------------------
MaxSheets == 3

\* Hidden of workbook.Workbook.Sheets[k]: 0 visible, 1 hidden, 2 very hidden,
\* or no value (no entry, or an entry without Hidden)
NoHidden == -1
HiddenValues == {NoHidden, 0, 1, 2}

\* the names of a workbook of n sheets; sheet names are unique in a workbook
SheetNamesOf(n) == [k \in 1..n |-> <<"Sheet", k>>]

\* the values XLSX.read can give: 1 to MaxSheets sheets, with
\* workbook.Workbook.Sheets present or not
Workbooks ==
  {[SheetNames |-> SheetNamesOf(Len(h)), hasProps |-> TRUE, Hidden |-> h] :
      h \in UNION {[1..m -> HiddenValues] : m \in 1..MaxSheets}}
  \cup {[SheetNames |-> SheetNamesOf(n), hasProps |-> FALSE, Hidden |-> [k \in 1..n |-> NoHidden]] :
          n \in 1..MaxSheets}

\* line 148: SheetNames.indexOf(sheetName), 0-based
IndexOf(names, name) ==
  (CHOOSE k \in 1..Len(names) : names[k] = name /\ \A j \in 1..(k - 1) : names[j] # name) - 1

\* lines 149-150: workbook.Workbook?.Sheets?.[sheetIndex]?.Hidden !== undefined
isHidden(wb, name) ==
  wb.hasProps /\ wb.Hidden[IndexOf(wb.SheetNames, name) + 1] # NoHidden

\* lines 146-156: the loop over SheetNames from position k (1-based) on
RECURSIVE FirstVisible(_, _, _)
FirstVisible(wb, k, default) ==
  IF k > Len(wb.SheetNames) THEN default
  ELSE IF ~isHidden(wb, wb.SheetNames[k]) THEN wb.SheetNames[k]
  ELSE FirstVisible(wb, k + 1, default)

\* lines 143-156
SelectSheet(wb) == FirstVisible(wb, 1, wb.SheetNames[1])

\* line 137: XLSX.read returns the workbook
XlsxRead ==
  /\ workbook = NoWorkbook
  /\ workbook' \in Workbooks
  /\ UNCHANGED << fileSelected, file, pc, _parsedData, results, totalRecords, i, row, inflight,
                  calls, replies, modalShown, status, progress, progressLog, footerShown,
                  summary, targetSheetName, runs >>

\* lines 142-159: the sheet to decode is chosen
ChooseSheet ==
  /\ workbook # NoWorkbook
  /\ targetSheetName = NoSheet
  /\ targetSheetName' = SelectSheet(workbook)
  /\ UNCHANGED << fileSelected, file, pc, _parsedData, results, totalRecords, i, row, inflight,
                  calls, replies, modalShown, status, progress, progressLog, footerShown,
                  summary, workbook, runs >>

SheetNext ==
  \/ XlsxRead
  \/ ChooseSheet

\* the decoding steps of uploadAndProcessFile taken alone, for every workbook
SheetSpec == Init /\ [][SheetNext]_vars

\* ------------------------------------------------------------------------
\* Overlapping invocations: the click listener (lines 110-112) starts
\* uploadAndProcessFile whenever the button is clicked, with no test of a run
\* in progress, and the change listener (lines 101-108) takes a new file at
\* any time.  Each invocation has its own locals (runs[r]); this._parsedData
\* and the modal are shared.  The position of an invocation tells which call
\* it awaits; the calls themselves are not recorded here.
\* ------------------------------------------------------------------------
\* the state of the single run, not used by the overlapping invocations
single == << pc, results, totalRecords, i, row, inflight, calls, replies, progressLog,
             workbook, targetSheetName >>

\* the grids chosen here: too short, without a usable row, and of 1, 2 and 3
\* records
ReGrids ==
  { <<>>,
    <<HeaderRow, ArrayRow(<<Str(<<>>), Str(sIgnored), Str(sIgnored)>>)>>,
    <<HeaderRow, ArrayRow(<<Str(sA1), Str(sYes)>>)>>,
    ExampleGrid,
    ThreeRecordGrid }

\* what the remote store answers here
ReQueryResults == {Resolved(<<1>>), Rejected(TransportError)}
ReProbeResults == {Resolved(<<1>>), Rejected(TransportError)}
ReUpdateResults == {Resolved(<<>>), Rejected(TransportError)}

\* lines 101-108: another file is chosen
ReFileChange ==
  /\ \E r \in Invocations : runs[r].pc = "idle"
  /\ file' \in ReGrids
  /\ file' # file \/ ~fileSelected
  /\ fileSelected' = TRUE
  /\ UNCHANGED << _parsedData, modalShown, status, progress, footerShown, summary, runs, single >>

\* lines 110-112 and 123-136: a click starts invocation r, up to
\* await file.arrayBuffer()
ReClick(r) ==
  /\ runs[r].pc = "idle"
  /\ \A q \in Invocations : q < r => runs[q].pc # "idle"
  /\ fileSelected
  /\ modalShown' = TRUE
  /\ status' = [type |-> "info", msg |-> "Parsing Excel file...", n |-> 0]
  /\ progress' = 0
  /\ runs' = [q \in Invocations |->
                IF q = r THEN [runs[q] EXCEPT !.pc = "reading", !.file = file]
                ELSE [runs[q] EXCEPT !.overlapped = @ \/ runs[q].pc \in {"q1", "q2", "q3", "upd"}]]
  /\ UNCHANGED << fileSelected, file, _parsedData, footerShown, summary, single >>

\* lines 202-206: the catch of uploadAndProcessFile, in invocation r
ReAbort(r, msg) ==
  /\ status' = [type |-> "error", msg |-> msg, n |-> 0]
  /\ footerShown' = TRUE
  /\ runs' = [runs EXCEPT ![r] = [@ EXCEPT !.pc = "aborted"]]
  /\ UNCHANGED << fileSelected, file, modalShown, summary, single >>

\* lines 136-137: reading or decoding the file of invocation r throws
ReReadFail(r) ==
  /\ runs[r].pc = "reading"
  /\ ReAbort(r, "Error: read")
  /\ UNCHANGED << _parsedData, progress >>

\* lines 344-353: invocation r, whose locals are me, reads record k of
\* this._parsedData as it is now (data) and looks it up
ReStartRecord(r, me, data, k) ==
  /\ status' = [type |-> "info", msg |-> "Processing record", n |-> k + 1]
  /\ runs' = [runs EXCEPT ![r] = [me EXCEPT !.pc = "q1", !.i = k, !.row = data[k + 1],
                                            !.seen = Append(me.seen, data[k + 1])]]

\* lines 136-201 and 334-353: the file of invocation r is decoded and parsed,
\* this._parsedData is assigned, and the loop starts
ReReadDone(r) ==
  /\ runs[r].pc = "reading"
  /\ IF TooShort(runs[r].file)
     THEN /\ ReAbort(r, "Error: Excel file must contain at least a header row and one data row")
          /\ progress' = 30
          /\ UNCHANGED _parsedData
     ELSE /\ _parsedData' = parseExcelData(runs[r].file)
          /\ IF NoValidData(parseExcelData(runs[r].file))
             THEN /\ ReAbort(r, "Error: No valid data found in Excel file. Please check your file format.")
                  /\ progress' = 30
             ELSE /\ progress' = 50
                  /\ ReStartRecord(r, [runs[r] EXCEPT !.totalRecords = Len(parseExcelData(runs[r].file)),
                                                      !.results = <<>>,
                                                      !.own = parseExcelData(runs[r].file)],
                                   parseExcelData(runs[r].file), 0)
                  /\ UNCHANGED << fileSelected, file, modalShown, footerShown, summary, single >>

\* lines 354-357 in invocation r, then its next iteration (344-353) or the
\* end of its loop (368); the loop condition and the next row are read from
\* this._parsedData as it is at this moment
ReRecordDone(r, result) ==
  /\ progress' = Progress(runs[r].i, runs[r].totalRecords)
  /\ IF MoreRecords(runs[r].i + 1)
     THEN /\ ReStartRecord(r, [runs[r] EXCEPT !.results = Push(runs[r].results, result)],
                           _parsedData, runs[r].i + 1)
          /\ UNCHANGED << summary, footerShown >>
     ELSE /\ displayModalResults(Push(runs[r].results, result))
          /\ runs' = [runs EXCEPT ![r] = [@ EXCEPT !.pc = "done", !.i = runs[r].i + 1,
                                                    !.results = Push(runs[r].results, result)]]
  /\ UNCHANGED << fileSelected, file, _parsedData, modalShown, single >>

\* invocation r issues one more call for its record and suspends on it
ReSuspend(r, at) ==
  /\ runs' = [runs EXCEPT ![r] = [@ EXCEPT !.pc = at]]
  /\ UNCHANGED << fileSelected, file, _parsedData, modalShown, status, progress, footerShown,
                  summary, single >>

\* lines 541-584 in invocation r: after a lookup resolved with entities
ReAfterLookup(r, entities) ==
  IF Len(entities) = 0 THEN ReRecordDone(r, NotFound(runs[r].row))
  ELSE IF updateData(runs[r].row) = {} THEN ReRecordDone(r, NoOpError(runs[r].row))
  ELSE ReSuspend(r, "upd")

\* lines 488-503: Strategy A of invocation r settles
ReQuery1Return(r, reply) ==
  /\ runs[r].pc = "q1"
  /\ IF reply.ok THEN ReAfterLookup(r, reply.entities) ELSE ReSuspend(r, "q2")

\* lines 500-516: Strategy B of invocation r settles
ReQuery2Return(r, reply) ==
  /\ runs[r].pc = "q2"
  /\ IF reply.ok THEN ReAfterLookup(r, reply.entities) ELSE ReSuspend(r, "q3")

\* lines 512-537: the probe of invocation r settles
ReQuery3Return(r, reply) ==
  /\ runs[r].pc = "q3"
  /\ IF reply.ok THEN ReRecordDone(r, NotFoundInEntity(runs[r].row))
     ELSE ReRecordDone(r, AccessError(runs[r].row, reply.error))

\* lines 580-601: the update of invocation r settles
ReUpdateReturn(r, reply) ==
  /\ runs[r].pc = "upd"
  /\ IF reply.ok THEN ReRecordDone(r, Success(runs[r].row))
     ELSE ReRecordDone(r, UpdateFailed(runs[r].row, reply.error))

\* lines 115-120: "Close & Refresh" reloads the page; the invocations still
\* suspended are gone with it
ReClose ==
  /\ footerShown
  /\ fileSelected' = FALSE
  /\ file' = <<>>
  /\ _parsedData' = <<>>
  /\ modalShown' = FALSE
  /\ status' = NoStatus
  /\ progress' = 0
  /\ footerShown' = FALSE
  /\ summary' = NoSummary
  /\ runs' = [r \in Invocations |-> NoRun]
  /\ UNCHANGED single

ReNext ==
  \/ ReFileChange
  \/ \E r \in Invocations : ReClick(r)
  \/ \E r \in Invocations : ReReadFail(r)
  \/ \E r \in Invocations : ReReadDone(r)
  \/ \E r \in Invocations : \E reply \in ReQueryResults : ReQuery1Return(r, reply)
  \/ \E r \in Invocations : \E reply \in ReQueryResults : ReQuery2Return(r, reply)
  \/ \E r \in Invocations : \E reply \in ReProbeResults : ReQuery3Return(r, reply)
  \/ \E r \in Invocations : \E reply \in ReUpdateResults : ReUpdateReturn(r, reply)
  \/ ReClose

ReSpec == Init /\ [][ReNext]_vars

\* ------------------------------------------------------------------------
\* Properties
\* ------------------------------------------------------------------------
RunPcs == {"q1", "q2", "q3", "upd"}
InRun == pc \in RunPcs
\* the file was decoded and parseExcelData was called (line 178 was passed)
Decoded == \E k \in 1..Len(progressLog) : progressLog[k] = 30
\* parseExcelData returned
Parsed == Decoded /\ Len(file) >= 2

ErrorTexts(res) == {res[k].error.text : k \in 1..Len(res)}

\* the calls issued for record k (0-based), in issue order
CallsOf(k) == SelectSeq(calls, LAMBDA c : c.rec = k)

\* C1: failure isolation.  Whatever outcome a record gets, the step that
\* records it starts the next record (its first lookup is issued in the same
\* step) or, after the last record, ends the run; a run that has ended has an
\* outcome for every record, and every record before the current one had its
\* lookup issued.
C1_StepIsolation ==
  (InRun /\ Len(results') = Len(results) + 1) =>
     IF Len(results') < Len(_parsedData)
     THEN /\ pc' = "q1"
          /\ i' = Len(results')
          /\ row' = _parsedData[i' + 1]
          /\ calls' = Append(calls, FirstLookup(_parsedData, i'))
          /\ FirstLookup(_parsedData, i') \in inflight'
     ELSE pc' = "done"

C1_NoneSkipped ==
  /\ pc = "done" => Len(results) = Len(_parsedData)
  /\ (InRun \/ pc = "done") =>
        \A k \in 0..(Len(_parsedData) - 1) :
           (k < Len(results) \/ (InRun /\ k = i)) => Len(CallsOf(k)) >= 1

C1_FailureIsolation == [][C1_StepIsolation]_vars /\ []C1_NoneSkipped

C1_Witness ==
  /\ pc = "done"
  /\ Len(results) = 2
  /\ results[1].error.text = "Update failed: "
  /\ results[2].success
  /\ file[1] = HeaderRow

C1_WitnessAllKinds ==
  /\ pc = "done"
  /\ results[1].error.text = "Entity access error: "

\* C2: the outcome accumulator is aligned with the records.  The k-th outcome
\* carries the id of the k-th record, there is one outcome per processed
\* record, outcomes are only appended, and a finished run has N outcomes.
C2_Aligned ==
  (InRun \/ pc = "done") =>
     /\ Len(results) <= Len(_parsedData)
     /\ \A k \in 1..Len(results) : results[k].recordId = _parsedData[k].ID
     /\ InRun => Len(results) = i
     /\ pc = "done" => (Len(results) = Len(_parsedData) /\ Len(results) = totalRecords)

C2_AppendOnly ==
  results' # results =>
     \/ pc' = "idle" /\ results' = <<>>
     \/ /\ Len(results') = Len(results) + 1
        /\ SubSeq(results', 1, Len(results)) = results

C2_Accumulator == []C2_Aligned /\ [][C2_AppendOnly]_vars

C2_Witness ==
  /\ pc = "done"
  /\ Len(results) = 2
  /\ results[1].recordId = sR1
  /\ results[2].recordId = sR2
  /\ ~results[1].success
  /\ results[2].success

\* C3: at most one remote call is in flight, it belongs to the current
\* record, and every earlier record has its outcome recorded by then (so the
\* first lookup of record i+1 is issued only once record i is finished).
C3_OneInFlight ==
  /\ Cardinality(inflight) <= 1
  /\ \A c \in inflight : InRun /\ c.rec = i /\ Len(results) = c.rec /\ c = Awaited
  /\ \A k \in 1..Len(calls) :
        (calls[k].rec > 0 /\ calls[k] = FirstLookup(_parsedData, calls[k].rec))
           => Len(results) >= calls[k].rec

C3_Witness ==
  /\ pc = "q1"
  /\ i = 1
  /\ inflight = {FirstLookup(_parsedData, 1)}
  /\ Len(results) = 1
  /\ calls[Len(calls) - 1].op = "updateRecord"

\* the messages of the two errors thrown before the run
EmptyInputMsg == "Error: Excel file must contain at least a header row and one data row"
NoValidDataMsg == "Error: No valid data found in Excel file. Please check your file format."

\* C4: a grid of fewer than 2 rows makes extraction fail with the empty-input
\* error; the upload is aborted, no remote call is issued and no outcome is
\* created.
C4_EmptyInput ==
  (fileSelected /\ Len(file) < 2) =>
     /\ calls = <<>>
     /\ inflight = {}
     /\ results = <<>>
     /\ _parsedData = <<>>
     /\ ~summary.shown
     /\ pc \in {"idle", "reading", "aborted"}
     /\ Decoded => /\ pc = "aborted"
                   /\ status = [type |-> "error", msg |-> EmptyInputMsg, n |-> 0]
                   /\ footerShown

C4_Witness ==
  /\ Len(file) = 1
  /\ Decoded
  /\ pc = "aborted"
  /\ status.msg = EmptyInputMsg

\* What the specification says of a row, stated on the grid alone.
\* column k (0-based) holds a value
Present(r, k) == Len(r.cells) > k /\ r.cells[k + 1].t \in {"str", "num"}
\* the text of column k: stringified and trimmed
ColText(r, k) == trim(toString(r.cells[k + 1]))
NonEmptyCol(r, k) == Present(r, k) /\ ColText(r, k) # <<>>
ClaimEmits(r) == r.isArray /\ Len(r.cells) >= 1 /\ NonEmptyCol(r, 0)
DataRows(g) == SubSeq(g, 2, Len(g))
\* the source row of the k-th record
SourceRow(k) == file[parsedFrom(file)[k] + 1]

\* C5 as stated: a grid of at least 2 rows is never aborted as a whole, the
\* run is always entered.
C5_OnlyEmptyInputFatal == Parsed => (InRun \/ pc = "done")

\* C5 as amended: a grid of at least 2 rows is aborted (error "No valid data
\* found", no call, no outcome, no summary) exactly when none of its data rows
\* yields a record; otherwise the run is entered and ends with a summary.
C5_Amended ==
  Parsed =>
     IF SelectSeq(DataRows(file), ClaimEmits) = <<>>
     THEN /\ pc = "aborted"
          /\ status = [type |-> "error", msg |-> NoValidDataMsg, n |-> 0]
          /\ footerShown
          /\ calls = <<>>
          /\ results = <<>>
          /\ ~summary.shown
     ELSE /\ InRun \/ pc = "done"
          /\ pc = "done" =>
               /\ summary.shown
               /\ footerShown
               /\ summary.successCount + summary.failureCount = Len(_parsedData)

C5_Witness ==
  /\ file = ExampleGrid
  /\ pc = "done"
  /\ summary.shown
  /\ summary.successCount + summary.failureCount = 2

C5_WitnessAborted ==
  /\ Len(file) = 3
  /\ pc = "aborted"
  /\ status.msg = NoValidDataMsg

\* C6: for a grid of at least 2 rows, the records are exactly the data rows
\* that are arrays with a column 0 that is non-empty once stringified and
\* trimmed, in row order, with that text as id; parsing the grid again gives
\* the same records.
C6_EmitIff ==
  Parsed =>
     LET src == SelectSeq(DataRows(file), ClaimEmits)
     IN /\ Len(_parsedData) = Len(src)
        /\ \A k \in 1..Len(src) : _parsedData[k].ID = ColText(src[k], 0)
        /\ parseExcelData(file) = _parsedData

C6_Witness ==
  /\ file = <<HeaderRow, ArrayRow(<<Str(<<>>), Str(sIgnored), Str(sIgnored)>>), ArrayRow(<<Str(sA1)>>)>>
  /\ InRun
  /\ _parsedData = <<[ID |-> sA1, Response |-> <<>>, Notes |-> <<>>]>>

C6_WitnessBlankId ==
  /\ file = <<HeaderRow, ArrayRow(<<Str(<<" ">>), Str(sR)>>)>>
  /\ pc = "aborted"
  /\ _parsedData = <<>>

\* C7: the response of every record is column 2 if it is non-empty after
\* trim, else column 1 if it is non-empty after trim, else empty.
ClaimResponse(r) ==
  IF NonEmptyCol(r, 2) THEN ColText(r, 2)
  ELSE IF NonEmptyCol(r, 1) THEN ColText(r, 1)
  ELSE <<>>

C7_ResponseFallback ==
  Parsed => \A k \in 1..Len(_parsedData) : _parsedData[k].Response = ClaimResponse(SourceRow(k))

\* C8: for a row of exactly 3 columns, all non-empty, the response is
\* column 1 and the notes are column 2.
C8_ThreeColumns ==
  Parsed =>
     \A k \in 1..Len(_parsedData) :
        LET r == SourceRow(k)
        IN (Len(r.cells) = 3 /\ NonEmptyCol(r, 0) /\ NonEmptyCol(r, 1) /\ NonEmptyCol(r, 2)) =>
              /\ _parsedData[k].Response = ColText(r, 1)
              /\ _parsedData[k].Notes = ColText(r, 2)

\* C9: for a row of 4 columns with an empty column 1 and non-empty columns
\* 0, 2 and 3, the response is column 2 and the notes are column 3; the row
\* ["A1", "", "R", "N"] gives response "R" and notes "N".
C9_FourColumns ==
  Parsed =>
     /\ \A k \in 1..Len(_parsedData) :
           LET r == SourceRow(k)
           IN (Len(r.cells) = 4 /\ ~IsSetCell(r.cells[2])
               /\ NonEmptyCol(r, 0) /\ NonEmptyCol(r, 2) /\ NonEmptyCol(r, 3)) =>
                 /\ _parsedData[k].Response = ColText(r, 2)
                 /\ _parsedData[k].Notes = ColText(r, 3)
     /\ file = <<HeaderRow, ArrayRow(<<Str(sA1), Str(<<>>), Str(sR), Str(<<"N">>)>>)>> =>
           _parsedData = <<[ID |-> sA1, Response |-> sR, Notes |-> <<"N">>]>>

C9_Witness ==
  /\ file = <<HeaderRow, ArrayRow(<<Str(sA1), Str(<<>>), Str(sR), Str(<<"N">>)>>)>>
  /\ InRun
  /\ row = [ID |-> sA1, Response |-> sR, Notes |-> <<"N">>]

\* a record whose response and notes are both empty
BothEmpty(r) == r.Response = <<>> /\ r.Notes = <<>>
NoOpText == "No data to update (Response and Notes are empty)"
\* a filtered lookup of record k (0-based) resolved with at least one entity
LookupFound(k) ==
  \E j \in 1..Len(replies) :
     calls[j].rec = k /\ calls[j].filtered /\ replies[j].ok /\ Len(replies[j].entities) >= 1
UpdateIssued(k) == \E j \in 1..Len(calls) : calls[j].rec = k /\ calls[j].op = "updateRecord"

\* C10 as stated: a record with empty response and notes never gets an update
\* call and its outcome is NoOpError, whatever the remote store does.
C10_AlwaysNoOp ==
  \A k \in 1..Len(results) :
     BothEmpty(_parsedData[k]) =>
        /\ ~UpdateIssued(k - 1)
        /\ results[k].error.text = NoOpText

\* C10 as amended: such a record never gets an update call; its outcome is
\* NoOpError exactly when a filtered lookup resolved with an entity, and
\* NotFound or AccessError otherwise.
C10_Amended ==
  /\ \A k \in 1..Len(results) :
        BothEmpty(_parsedData[k]) =>
           /\ ~UpdateIssued(k - 1)
           /\ ~results[k].success
           /\ (results[k].error.text = NoOpText) <=> LookupFound(k - 1)
           /\ ~LookupFound(k - 1) =>
                results[k].error.text \in
                  {"Record not found: ''", "Record '' not found in entity", "Entity access error: "}
  /\ (InRun /\ BothEmpty(row)) => (pc # "upd" /\ ~UpdateIssued(i))

C10_Witness ==
  /\ pc = "done"
  /\ Len(results) = 2
  /\ BothEmpty(_parsedData[1])
  /\ results[1].error.text = NoOpText
  /\ results[2].success

\* the calls of the three lookup strategies
IsStrategyA(c) == c.op = "retrieveMultipleRecords" /\ c.entity = PrimaryEntity /\ c.filtered
IsStrategyB(c) == c.op = "retrieveMultipleRecords" /\ c.entity = AlternateEntity /\ c.filtered
IsProbe(c) == c.op = "retrieveMultipleRecords" /\ c.entity = PrimaryEntity /\ ~c.filtered
IsUpdate(c) == c.op = "updateRecord"
NotFoundTexts == {"Record not found: ''", "Record '' not found in entity"}
AccessErrorText == "Entity access error: "
\* the outcome of record k (0-based) is recorded
HasOutcome(k) == Len(results) > k

\* C11: when Strategy A resolves with zero entities no other call is issued
\* for the record and its outcome is NotFound; Strategy B is issued only
\* right after Strategy A of the same record was rejected; a query of any
\* strategy that resolves with zero entities gives NotFound, never
\* AccessError.
C11_ZeroEntities ==
  /\ \A j \in 1..Len(replies) :
        (IsStrategyA(calls[j]) /\ replies[j].ok /\ replies[j].entities = <<>>) =>
           /\ CallsOf(calls[j].rec) = <<calls[j]>>
           /\ HasOutcome(calls[j].rec)
           /\ results[calls[j].rec + 1].error =
                [text |-> "Record not found: ''", key |-> _parsedData[calls[j].rec + 1].ID,
                 detail |-> ""]
  /\ \A j \in 1..Len(calls) :
        IsStrategyB(calls[j]) =>
           /\ j > 1
           /\ IsStrategyA(calls[j - 1])
           /\ calls[j - 1].rec = calls[j].rec
           /\ ~replies[j - 1].ok
  /\ \A j \in 1..Len(replies) :
        (calls[j].op = "retrieveMultipleRecords" /\ replies[j].ok /\ replies[j].entities = <<>>) =>
           /\ HasOutcome(calls[j].rec)
           /\ ~results[calls[j].rec + 1].success
           /\ results[calls[j].rec + 1].error.text \in NotFoundTexts

C11_Witness ==
  /\ pc = "done"
  /\ Len(calls) = 1
  /\ IsStrategyA(calls[1])
  /\ replies = <<Resolved(<<>>)>>
  /\ results[1].error.text = "Record not found: ''"

\* Strategy A and Strategy B of record k (0-based) were both rejected
BothLookupsFailed(k) ==
  \E j \in 2..Len(replies) :
     /\ IsStrategyA(calls[j - 1]) /\ calls[j - 1].rec = k /\ ~replies[j - 1].ok
     /\ IsStrategyB(calls[j]) /\ calls[j].rec = k /\ ~replies[j].ok

\* C12: when Strategy A and Strategy B are both rejected, exactly one
\* unfiltered probe is issued against the primary collection and nothing
\* else; a resolved probe gives NotFound, a rejected probe gives AccessError,
\* and no update is issued for the record.  The probe is issued in no other
\* case.
C12_Probe ==
  /\ \A k \in 0..(Len(_parsedData) - 1) :
        BothLookupsFailed(k) =>
           /\ Len(CallsOf(k)) = 3
           /\ CallsOf(k)[3] = Query(PrimaryEntity, FALSE, <<>>, k)
           /\ ~UpdateIssued(k)
           /\ HasOutcome(k) =>
                \E j \in 1..Len(replies) :
                   /\ calls[j] = CallsOf(k)[3]
                   /\ ~results[k + 1].success
                   /\ IF replies[j].ok
                      THEN results[k + 1].error =
                             [text |-> "Record '' not found in entity",
                              key |-> _parsedData[k + 1].ID, detail |-> ""]
                      ELSE /\ results[k + 1].error.text = AccessErrorText
                           /\ results[k + 1].error.detail \in {replies[j].error.message, "Unknown error"}
  /\ \A j \in 1..Len(calls) : IsProbe(calls[j]) => BothLookupsFailed(calls[j].rec)
  /\ pc = "q3" <=> (InRun /\ BothLookupsFailed(i) /\ ~HasOutcome(i))

C12_Witness ==
  /\ pc = "done"
  /\ Len(results) = 2
  /\ Len(CallsOf(0)) = 3
  /\ Len(CallsOf(1)) = 3
  /\ results[1].error.text = "Record '' not found in entity"
  /\ results[2].error.text = AccessErrorText

\* C13: a record whose Strategy A is rejected and whose Strategy B resolves
\* with at least one entity is updated (when it has something to send) with
\* the first entity Strategy B returned, and gets a success outcome if that
\* update succeeds; the probe is not issued for it.
C13_FallbackSucceeds ==
  \A k \in 0..(Len(_parsedData) - 1) :
     \A j \in 2..Len(replies) :
        ( /\ IsStrategyA(calls[j - 1]) /\ calls[j - 1].rec = k /\ ~replies[j - 1].ok
          /\ IsStrategyB(calls[j]) /\ calls[j].rec = k
          /\ replies[j].ok /\ Len(replies[j].entities) >= 1 ) =>
             /\ \A m \in 1..Len(calls) : calls[m].rec = k => ~IsProbe(calls[m])
             /\ _parsedData[k + 1].Response # <<>> \/ _parsedData[k + 1].Notes # <<>> =>
                  /\ Len(calls) > j
                  /\ IsUpdate(calls[j + 1])
                  /\ calls[j + 1].rec = k
                  /\ calls[j + 1].id = replies[j].entities[1]
                  /\ (Len(replies) > j /\ replies[j + 1].ok) =>
                        (HasOutcome(k) /\ results[k + 1] = [success |-> TRUE,
                                                            recordId |-> _parsedData[k + 1].ID,
                                                            error |-> NoErrorText])

C13_Witness ==
  /\ pc = "done"
  /\ Len(results) = 1
  /\ Len(calls) = 3
  /\ IsStrategyA(calls[1]) /\ ~replies[1].ok
  /\ IsStrategyB(calls[2]) /\ replies[2] = Resolved(<<2, 1>>)
  /\ IsUpdate(calls[3]) /\ replies[3].ok
  /\ results[1].success

\* the detail a rejection carries: its message, else its string form
RemoteDetail(e) == IF e.message # "" THEN e.message ELSE e.str

\* the indices in calls of the update calls of record k (0-based)
UpdatesOf(k) == {m \in 1..Len(calls) : IsUpdate(calls[m]) /\ calls[m].rec = k}

\* C14: a rejected update gives a failure outcome "Update failed" carrying
\* the remote error detail, a resolved update gives success: true, and a
\* success outcome is produced on no other path: every record with a success
\* outcome has exactly one update call, and it resolved.
C14_ApplyPhase ==
  /\ \A m \in 1..Len(replies) :
        IsUpdate(calls[m]) =>
           /\ HasOutcome(calls[m].rec)
           /\ results[calls[m].rec + 1].recordId = _parsedData[calls[m].rec + 1].ID
           /\ IF replies[m].ok
              THEN /\ results[calls[m].rec + 1].success
                   /\ results[calls[m].rec + 1].error = NoErrorText
              ELSE /\ ~results[calls[m].rec + 1].success
                   /\ results[calls[m].rec + 1].error =
                        [text |-> "Update failed: ", key |-> <<>>,
                         detail |-> RemoteDetail(replies[m].error)]
  /\ \A k \in 1..Len(results) :
        results[k].success =>
           /\ Cardinality(UpdatesOf(k - 1)) = 1
           /\ \A m \in UpdatesOf(k - 1) : m <= Len(replies) /\ replies[m].ok
  /\ \A k \in 0..(Len(_parsedData) - 1) : Cardinality(UpdatesOf(k)) <= 1

C14_Witness ==
  /\ pc = "done"
  /\ Len(results) = 2
  /\ results[1].error = [text |-> "Update failed: ", key |-> <<>>, detail |-> "503"]
  /\ results[2].success
  /\ Cardinality(UpdatesOf(0)) = 1
  /\ Cardinality(UpdatesOf(1)) = 1

\* record k (0-based) reached Updated: an update call for it resolved
Updated(k) == \E m \in UpdatesOf(k) : m <= Len(replies) /\ replies[m].ok

\* the positions (1-based) of the records that did not reach Updated, in input order
NotUpdatedPositions ==
  SelectSeq([k \in 1..Len(_parsedData) |-> k], LAMBDA k : ~Updated(k - 1))

\* C15: the summary shown after the last record has successCount +
\* failureCount = N, successCount is the number of records that reached
\* Updated, and the failure list is exactly the outcomes of the other
\* records, in input order.
C15_Summary ==
  /\ summary.shown <=> pc = "done"
  /\ pc = "done" =>
        /\ summary.successCount + summary.failureCount = Len(_parsedData)
        /\ summary.successCount = Cardinality({k \in 0..(Len(_parsedData) - 1) : Updated(k)})
        /\ summary.failureCount = Len(NotUpdatedPositions)
        /\ Len(summary.failed) = Len(NotUpdatedPositions)
        /\ \A m \in 1..Len(NotUpdatedPositions) :
              /\ summary.failed[m] = results[NotUpdatedPositions[m]]
              /\ summary.failed[m].recordId = _parsedData[NotUpdatedPositions[m]].ID
              /\ ~summary.failed[m].success
              /\ summary.failed[m].error.text \in
                   NotFoundTexts \cup {AccessErrorText, NoOpText, "Update failed: "}

C15_Witness ==
  /\ pc = "done"
  /\ file = ThreeRecordGrid
  /\ summary.successCount = 1
  /\ summary.failureCount = 2
  /\ results[2].success
  /\ summary.failed[1].error.text = "Update failed: "
  /\ summary.failed[2].error.text = NoOpText

\* p is k/n*100 rounded to the nearest integer, halves up
IsRounded(p, k, n) == 2 * n * p <= 200 * k + n /\ 2 * n * p > 200 * k - n

\* the values updateModalProgress got from the run loop: those after the
\* three values of uploadAndProcessFile (0, 30, 50)
LoopProgress == SubSeq(progressLog, 4, Len(progressLog))

\* C16: the run loop emits one progress value per record, right when the
\* record's outcome is recorded, and the k-th value is round(k/N*100): the
\* sequence is round(1/N*100), ..., 100.
C16_Values ==
  (InRun \/ pc = "done") =>
     /\ SubSeq(progressLog, 1, 3) = <<0, 30, 50>>
     /\ Len(LoopProgress) = Len(results)
     /\ \A k \in 1..Len(LoopProgress) : IsRounded(LoopProgress[k], k, Len(_parsedData))
     /\ pc = "done" => LoopProgress[Len(LoopProgress)] = 100
     /\ progress = progressLog[Len(progressLog)]

C16_Step ==
  (InRun /\ progressLog' # progressLog) =>
     /\ Len(progressLog') = Len(progressLog) + 1
     /\ Len(results') = Len(results) + 1
     /\ (pc' = "q1" /\ i' = i + 1) \/ pc' = "done"

C16_ProgressSequence == []C16_Values /\ [][C16_Step]_vars

C16_Witness ==
  /\ pc = "done"
  /\ LoopProgress = <<33, 67, 100>>
  /\ \A k \in 0..2 : LookupFound(k)

\* C17: every percentage the UI receives is in 0..100 and the sequence of
\* percentages of an upload, from the first value shown while parsing to the
\* value after the last record, never decreases.
C17_Monotone ==
  /\ \A k \in 1..Len(progressLog) : progressLog[k] \in 0..100
  /\ \A k \in 1..(Len(progressLog) - 1) : progressLog[k] <= progressLog[k + 1]

\* what does hold of the code: the values are in 0..100 and the values of
\* the run loop alone never decrease
C17_LoopMonotone ==
  /\ \A k \in 1..Len(progressLog) : progressLog[k] \in 0..100
  /\ \A k \in 1..(Len(LoopProgress) - 1) : LoopProgress[k] <= LoopProgress[k + 1]

TerminalTexts == NotFoundTexts \cup {AccessErrorText, NoOpText, "Update failed: ", ""}

\* every record of the batch has an outcome, and it is one of the five
AllTerminal ==
  /\ Len(results) = Len(_parsedData)
  /\ \A k \in 1..Len(results) :
        /\ results[k].recordId = _parsedData[k].ID
        /\ results[k].error.text \in TerminalTexts

\* C18: if every remote call eventually returns, a started batch runs to
\* completion: the run eventually shows the summary with every record in one
\* of the five terminal states, and the summary is shown once, in the step
\* that records the last outcome and never before.
C18_Eventually == InRun ~> (pc = "done" /\ summary.shown /\ AllTerminal)

C18_AfterLast ==
  summary.shown =>
     /\ pc = "done"
     /\ Len(results) = Len(_parsedData)
     /\ inflight = {}

C18_Once ==
  /\ summary' # summary =>
        \/ /\ InRun
           /\ ~summary.shown
           /\ summary'.shown
           /\ pc' = "done"
           /\ Len(results') = Len(results) + 1
           /\ Len(results') = Len(_parsedData)
        \/ pc' = "idle" /\ summary' = NoSummary
  /\ pc = "done" => pc' \in {"done", "idle"}

C18_RunsToCompletion == C18_Eventually /\ []C18_AfterLast /\ [][C18_Once]_vars

C18_Witness ==
  /\ pc = "done"
  /\ file = ThreeRecordGrid
  /\ Len(results) = 3
  /\ summary.shown
  /\ summary.successCount + summary.failureCount = 3

\* C19 as stated: the example grid gives exactly the two records
\* {R1, Yes, ok} and {R2, empty response, comment}, in this order.
C19_ExampleExtraction ==
  (file = ExampleGrid /\ Parsed) =>
     _parsedData = << [ID |-> sR1, Response |-> sYes, Notes |-> sOk],
                      [ID |-> sR2, Response |-> <<>>, Notes |-> sComment] >>

\* what lines 236-269 give for the example grid: two records with the right
\* ids in the right order, the third cell taken as the response and no notes
C19_CodeExtraction ==
  (file = ExampleGrid /\ Parsed) =>
     _parsedData = << [ID |-> sR1, Response |-> sOk, Notes |-> <<>>],
                      [ID |-> sR2, Response |-> sComment, Notes |-> <<>>] >>

\* the filtered lookups of record k (0-based) that resolved with zero entities
LookupEmpty(k) ==
  \E j \in 1..Len(replies) :
     calls[j].rec = k /\ calls[j].filtered /\ replies[j].ok /\ replies[j].entities = <<>>

\* C20: a run over the example grid that has ended.  If the lookups found R1
\* and R2 and both updates went through, the summary has 2 successes and 0
\* failures; if R1 was found and updated and the lookup of R2 resolved with
\* zero entities, the summary has 1 success and 1 failure, and the failure
\* names R2 as not found.
C20_ExampleReconciliation ==
  (file = ExampleGrid /\ pc = "done") =>
     /\ (LookupFound(0) /\ LookupFound(1) /\ Updated(0) /\ Updated(1)) =>
           /\ summary.shown
           /\ summary.successCount = 2
           /\ summary.failureCount = 0
           /\ summary.failed = <<>>
     /\ (LookupFound(0) /\ Updated(0) /\ LookupEmpty(1)) =>
           /\ summary.shown
           /\ summary.successCount = 1
           /\ summary.failureCount = 1
           /\ summary.failed =
                << [success |-> FALSE, recordId |-> sR2,
                    error |-> [text |-> "Record not found: ''", key |-> sR2, detail |-> ""]] >>

C20_Witness ==
  /\ file = ExampleGrid
  /\ pc = "done"
  /\ LookupFound(0)
  /\ Updated(0)
  /\ LookupEmpty(1)
  /\ summary.successCount = 1
  /\ summary.failureCount = 1

C20_WitnessBoth ==
  /\ file = ExampleGrid
  /\ pc = "done"
  /\ Updated(0)
  /\ Updated(1)
  /\ summary.successCount = 2

\* the values the payload of call c carries for a field
Sent(c, field) == {p[2] : p \in {q \in c.data : q[1] = field}}

\* C21: the payload of every update call carries afsdc_response exactly when
\* the response of its record is non-empty after trimming, and then with the
\* trimmed response as its value; the same for afsdc_comments and the notes;
\* no field is ever sent with an empty value.
C21_Payload ==
  \A j \in 1..Len(calls) :
     IsUpdate(calls[j]) =>
        LET r == _parsedData[calls[j].rec + 1]
        IN /\ Sent(calls[j], "afsdc_response") =
                (IF trim(r.Response) # <<>> THEN {trim(r.Response)} ELSE {})
           /\ Sent(calls[j], "afsdc_comments") =
                (IF trim(r.Notes) # <<>> THEN {trim(r.Notes)} ELSE {})
           /\ \A p \in calls[j].data :
                 /\ p[1] \in {"afsdc_response", "afsdc_comments"}
                 /\ p[2] # <<>>

\* an update was sent for a record with a response and no notes, and one for
\* a record with notes and no response
C21_Witness ==
  \E j \in 1..Len(calls) :
     /\ IsUpdate(calls[j])
     /\ Sent(calls[j], "afsdc_response") # {}
     /\ Sent(calls[j], "afsdc_comments") = {}
     /\ _parsedData[calls[j].rec + 1].Notes = <<>>

C21_WitnessNotesOnly ==
  \E j \in 1..Len(calls) :
     /\ IsUpdate(calls[j])
     /\ Sent(calls[j], "afsdc_response") = {}
     /\ Sent(calls[j], "afsdc_comments") # {}

\* the positions (1-based) of the rows after row 0 that are arrays with a
\* non-empty column 0, in row order
EmittingPositions ==
  SelectSeq([j \in 1..Len(file) |-> j], LAMBDA j : j >= 2 /\ ClaimEmits(file[j]))

\* C22: the records are those of the rows after row 0 that have a non-empty
\* column 0, one per row and in row order (the source indices of successive
\* records increase strictly); row 0 is the source of no record, also when it
\* is an array with a non-empty column 0.
C22_OrderAndHeader ==
  Parsed =>
     /\ Len(_parsedData) = Len(EmittingPositions)
     /\ \A k \in 1..Len(_parsedData) :
           /\ _parsedData[k] = RowRecord(file[EmittingPositions[k]])
           /\ parsedFrom(file)[k] = EmittingPositions[k] - 1
           /\ parsedFrom(file)[k] >= 1
     /\ \A a, b \in 1..Len(_parsedData) : a < b => parsedFrom(file)[a] < parsedFrom(file)[b]

\* row 0 looks like a data row and gave no record
C22_Witness ==
  /\ file = <<DataLikeHeader, DataLikeHeader>>
  /\ ClaimEmits(file[1])
  /\ InRun
  /\ _parsedData = <<RowRecord(DataLikeHeader)>>

\* two records in row order, from a grid with a row that gave none
C22_WitnessOrder ==
  /\ Parsed
  /\ file = ExampleGrid
  /\ Len(_parsedData) = 2
  /\ parsedFrom(file) = <<1, 2>>
  /\ _parsedData[1].ID # _parsedData[2].ID

\* Hidden = 1 or 2: the sheet at position k (1-based) is marked hidden
MarkedHidden(wb, k) == wb.hasProps /\ wb.Hidden[k] \in {1, 2}
NotMarkedHidden(wb) == {k \in 1..Len(wb.SheetNames) : ~MarkedHidden(wb, k)}
Lowest(S) == CHOOSE k \in S : \A j \in S : k <= j

\* C23 as stated: the sheet chosen is the first one not marked hidden, a
\* sheet with Hidden = 0 counting as not hidden; the first sheet is chosen
\* only when every sheet is marked hidden.
C23_FirstNotHidden ==
  targetSheetName # NoSheet =>
     IF NotMarkedHidden(workbook) # {}
     THEN targetSheetName = workbook.SheetNames[Lowest(NotMarkedHidden(workbook))]
     ELSE targetSheetName = workbook.SheetNames[1]

\* what lines 143-156 do: the sheet chosen is the first one that has no Hidden
\* value at all, and the first sheet when every sheet has one, whatever the
\* values are
C23_CodeSelection ==
  targetSheetName # NoSheet =>
     LET bare == {k \in 1..Len(workbook.SheetNames) :
                     ~workbook.hasProps \/ workbook.Hidden[k] = NoHidden}
     IN IF bare # {}
        THEN targetSheetName = workbook.SheetNames[Lowest(bare)]
        ELSE targetSheetName = workbook.SheetNames[1]

\* a hidden first sheet followed by a visible one: the hidden sheet is chosen
C23_HiddenChosen ==
  /\ workbook.hasProps
  /\ Len(workbook.SheetNames) = 2
  /\ workbook.Hidden = <<1, 0>>
  /\ targetSheetName = workbook.SheetNames[1]

QueriesOf(k) == {m \in 1..Len(calls) : calls[m].op = "retrieveMultipleRecords" /\ calls[m].rec = k}

\* C24: for every record and whatever the remote store answers, at most 3
\* queries and at most 1 update are issued; the first call is Strategy A,
\* Strategy B comes only right after a rejected Strategy A, the probe only
\* right after a rejected Strategy B, and nothing follows the probe or the
\* update; an update comes only right after a filtered query of the same
\* record that resolved with at least one entity, has a non-empty payload and
\* names the first entity of that reply.
C24_CallProtocol ==
  /\ \A k \in 0..(Len(_parsedData) - 1) :
        /\ Cardinality(QueriesOf(k)) <= 3
        /\ Cardinality(UpdatesOf(k)) <= 1
        /\ CallsOf(k) # <<>> => IsStrategyA(CallsOf(k)[1])
  /\ \A j \in 1..Len(calls) :
        /\ IsStrategyA(calls[j]) => (j = 1 \/ calls[j - 1].rec = calls[j].rec - 1)
        /\ IsStrategyB(calls[j]) =>
              /\ j > 1
              /\ IsStrategyA(calls[j - 1]) /\ calls[j - 1].rec = calls[j].rec
              /\ ~replies[j - 1].ok
        /\ IsProbe(calls[j]) =>
              /\ j > 1
              /\ IsStrategyB(calls[j - 1]) /\ calls[j - 1].rec = calls[j].rec
              /\ ~replies[j - 1].ok
        /\ IsUpdate(calls[j]) =>
              /\ j > 1
              /\ calls[j - 1].rec = calls[j].rec
              /\ IsStrategyA(calls[j - 1]) \/ IsStrategyB(calls[j - 1])
              /\ replies[j - 1].ok
              /\ Len(replies[j - 1].entities) >= 1
              /\ calls[j].id = replies[j - 1].entities[1]
              /\ calls[j].data # {}
        /\ (IsProbe(calls[j]) \/ IsUpdate(calls[j])) /\ j < Len(calls) =>
              calls[j + 1].rec = calls[j].rec + 1
        /\ IsStrategyA(calls[j]) \/ IsStrategyB(calls[j]) \/ IsProbe(calls[j]) \/ IsUpdate(calls[j])

\* one record went through A, B and the probe, another through A, B and an
\* update of the first of two entities
C24_Witness ==
  /\ pc = "done"
  /\ Len(calls) = 6
  /\ Cardinality(QueriesOf(0)) = 3
  /\ IsProbe(calls[3])
  /\ IsStrategyB(calls[5]) /\ replies[5] = Resolved(<<2, 1>>)
  /\ IsUpdate(calls[6]) /\ calls[6].id = 2

C25_WitnessBlank ==
  /\ file = <<HeaderRow, ArrayRow(<<Str(sR), Str(<<>>), Str(<<" ">>)>>)>>
  /\ InRun
  /\ _parsedData = <<[ID |-> sR, Response |-> <<>>, Notes |-> <<>>]>>

\* C27: every update call names the collection
\* "afsdc_questionresponseinstance", whichever query found the entity; when
\* the entity was found by Strategy A on "afsdc_questionresponseinstances",
\* the update goes to another collection than the one that answered.
C27_UpdateEntity ==
  \A j \in 1..Len(calls) :
     IsUpdate(calls[j]) =>
        /\ calls[j].entity = "afsdc_questionresponseinstance"
        /\ j > 1
        /\ calls[j - 1].op = "retrieveMultipleRecords"
        /\ calls[j - 1].entity = "afsdc_questionresponseinstances" =>
              (replies[j - 1].ok /\ calls[j].entity # calls[j - 1].entity)
        /\ calls[j - 1].entity = "afsdc_questionresponseinstance" =>
              calls[j].entity = calls[j - 1].entity

\* an update issued right after Strategy A found the entity
C27_Witness ==
  /\ pc = "upd"
  /\ Len(calls) = 2
  /\ calls[1].entity = "afsdc_questionresponseinstances" /\ calls[1].filtered
  /\ replies[1].ok
  /\ IsUpdate(calls[2])
  /\ calls[2].entity = "afsdc_questionresponseinstance"

\* an update issued after Strategy B found the entity
C27_WitnessB ==
  /\ pc = "upd"
  /\ Len(calls) = 3
  /\ calls[2].entity = "afsdc_questionresponseinstance" /\ calls[2].filtered
  /\ IsUpdate(calls[3])
  /\ calls[3].entity = "afsdc_questionresponseinstance"

IsPrefix(a, b) == Len(a) <= Len(b) /\ a = SubSeq(b, 1, Len(a))
Looping(r) == runs[r].pc \in RunPcs \cup {"done"}

\* C26 as stated: an invocation of the upload whose batch has started reads
\* the records of its own parse, in order, whatever is clicked or chosen
\* while it is suspended: the rows it has read are a prefix of the records
\* its parseExcelData returned, its total is their number, and when it ends
\* it has read them all and has one outcome for each.
C26_OwnSequence ==
  \A r \in Invocations :
     (Looping(r) /\ runs[r].overlapped) =>
        /\ IsPrefix(runs[r].seen, runs[r].own)
        /\ runs[r].totalRecords = Len(runs[r].own)
        /\ runs[r].pc = "done" =>
              /\ runs[r].seen = runs[r].own
              /\ Len(runs[r].results) = Len(runs[r].own)

\* what the loop of lines 344-345 does: every row an invocation reads is the
\* row at its index in this._parsedData as it is at that moment, and this is
\* the list assigned last by any invocation
C26_ReadsSharedList ==
  \A r \in Invocations :
     Len(runs'[r].seen) > Len(runs[r].seen) =>
        /\ runs'[r].i < Len(_parsedData')
        /\ runs'[r].seen = Append(runs[r].seen, _parsedData'[runs'[r].i + 1])
        /\ \E q \in Invocations : _parsedData' = runs'[q].own

C26_SharedList == [][C26_ReadsSharedList]_vars

\* when the second click is on the same file as the first, both invocations
\* read the same records
C26_SameFile ==
  (\A r \in Invocations : runs[r].pc # "idle" => runs[r].file = runs[1].file) => C26_OwnSequence

\* the first invocation, started on a grid of three records, ends after a
\* second upload of the example grid: it has read R1 of its own grid, then R2
\* of the other, and has two outcomes for a total of three
C26_Overwritten ==
  /\ runs[1].file = ThreeRecordGrid
  /\ runs[2].file = ExampleGrid
  /\ runs[1].pc = "done"
  /\ runs[1].overlapped
  /\ runs[1].totalRecords = 3
  /\ Len(runs[1].results) = 2
  /\ runs[1].seen = <<parseExcelData(ThreeRecordGrid)[1], parseExcelData(ExampleGrid)[2]>>

====
